---- MODULE Spec2Model ----
(***************************************************************************)
(* Energy Management System (EMS) of Elojah/ems_development.               *)
(*                                                                         *)
(* The assets (PV, ESS), the site-level operations of the EMS and its      *)
(* decision loop Serve, translated from the Go sources.  All powers are kW *)
(* and all energies kWh; the Go code computes in float64, the model in     *)
(* exact integers, on inputs for which every product and quotient of the   *)
(* code is an integer (powers on a grid of 20 kW, PMaxSite a multiple of   *)
(* 1000, Peak a multiple of 100).                                          *)
(*                                                                         *)
(* pv.go holds three files back to back: PV (lines 1-92), an earlier ESS   *)
(* (lines 94-221, here ESSv1) and the current ESS (lines 223-358, here     *)
(* ESS), the one whose BalanceEnergy(poc, pocMax) the EMS calls.           *)
(***************************************************************************)
EXTENDS Integers, Sequences, FiniteSets, TLC

VARIABLES
    pv,        \* EMS.PV:  [P, Pprod, Peak, SetPointP]
    ess,       \* EMS.ESS: [P, PmaxCh, PmaxDisch, E, Capacity, SetPointP]
    POC,       \* EMS.POC.P, the meter measure at the point of connection
    emsPMaxSite, \* PMaxSite of the EMS that run() built (Serve works on a copy)
    PMaxSite,  \* PMaxSite of Serve's copy of the EMS, narrowed by the margin
    pMinSite,  \* Serve's local pMinSite
    poc,       \* Serve's local poc: the reading, then the running estimate
    reading,   \* the value GetMeterMeasure returned in the current tick
    calls,     \* the site/asset operations Serve invoked in the current tick
    pc,        \* position of the Serve goroutine
    ctxKind,   \* the context Serve was given: "Background" or "WithCancel"
    ctxDone,   \* ctx.Done() is closed
    proc,      \* the process: "running" or "exited"
    ticks,     \* number of decision cycles started
    last       \* the last direct call of an operation and what it returned

vars == <<pv, ess, POC, emsPMaxSite, PMaxSite, pMinSite, poc, reading, calls, pc,
          ctxKind, ctxDone, proc, ticks, last>>

(***************************************************************************)
(* Bounds of the model.                                                    *)
(***************************************************************************)
MaxK == 2       \* powers range over 20 * (-MaxK .. MaxK)
MaxE == 2       \* Capacity is 20 * MaxE; E ranges over 20 * (-1 .. MaxE + 1)
MaxD == 3       \* requested amounts range over 20 * (-MaxD .. MaxD)
MaxPoc == 1     \* poc and pocMax of a direct BalanceEnergy call: 20 * (-MaxPoc .. MaxPoc)
MaxTicks == 2   \* decision cycles of Serve that are explored
DrawSteps == 3  \* outcomes of rand.Int63n(10) explored: DrawSteps + 1 of 0..9

Grid(lo, hi) == {20 * k : k \in lo..hi}

Min(a, b) == IF a < b THEN a ELSE b
Max(a, b) == IF a > b THEN a ELSE b

(***************************************************************************)
(* float64 quotient n/d compared with the literal a/b (b > 0), as IEEE 754 *)
(* does it: x/0 is +Inf, -Inf or NaN, and every comparison with NaN is     *)
(* false.                                                                  *)
(***************************************************************************)
QuotLess(n, d, a, b) ==
    IF d > 0 THEN n * b < a * d
    ELSE IF d < 0 THEN n * b > a * d
    ELSE n < 0

QuotGreater(n, d, a, b) ==
    IF d > 0 THEN n * b > a * d
    ELSE IF d < 0 THEN n * b < a * d
    ELSE n > 0

(***************************************************************************)
(* PV (pv.go, lines 1-92).                                                 *)
(***************************************************************************)
PV_GetMeasure(v) == <<v.P, v.Pprod>>

PV_SetSetpoint(v, setpointPPv) == [v EXCEPT !.SetPointP = setpointPPv]

PV_AvailableProd(v) == v.Pprod - v.P

\* A variant that forgets the current output when it computes the remainder.
PV_IncreaseDischarge_ForgetsP(v, discharge) ==
    LET p == PV_GetMeasure(v)[1]
        pProd == PV_GetMeasure(v)[2]
    IN  IF p + discharge < pProd
        THEN [pv |-> PV_SetSetpoint(v, p + discharge), ret |-> 0]
        ELSE [pv |-> PV_SetSetpoint(v, pProd), ret |-> discharge - pProd]

PV_IncreaseDischarge(v, discharge) ==
    LET p == PV_GetMeasure(v)[1]
        pProd == PV_GetMeasure(v)[2]
    IN  IF p + discharge < pProd
        THEN [pv |-> PV_SetSetpoint(v, p + discharge), ret |-> 0]
        ELSE [pv |-> PV_SetSetpoint(v, pProd), ret |-> discharge - (pProd - p)]

\* A variant without the floor at 0.
PV_DecreaseDischarge_NoFloor(v, discharge) ==
    [pv |-> PV_SetSetpoint(v, PV_GetMeasure(v)[1] + discharge), ret |-> 0]

PV_DecreaseDischarge(v, discharge) ==
    LET p == PV_GetMeasure(v)[1]
    IN  IF p + discharge < 0
        THEN [pv |-> PV_SetSetpoint(v, 0), ret |-> -p]
        ELSE IF p + discharge > 0
        THEN [pv |-> PV_SetSetpoint(v, p + discharge), ret |-> 0]
        ELSE [pv |-> PV_SetSetpoint(v, 0), ret |-> discharge - p]

PV_AdjustDischarge(v, discharge) ==
    IF discharge < 0
    THEN PV_DecreaseDischarge(v, discharge)
    ELSE PV_IncreaseDischarge(v, discharge)

(***************************************************************************)
(* ESS, the current implementation (pv.go, lines 223-358).  The error      *)
(* result of every method is always nil.                                   *)
(***************************************************************************)
\* A variant that reads back the commanded setpoint instead of the measure.
ESS_GetMeasure_ReadsSetpoint(s) == <<s.SetPointP, s.PmaxCh, s.PmaxDisch, s.E>>

ESS_GetMeasure(s) == <<s.P, s.PmaxCh, s.PmaxDisch, s.E>>

\* A variant in which the command also overwrites the measured power.
ESS_SetSetpoint_AlsoSetsP(s, setpointPEss) ==
    [s EXCEPT !.SetPointP = setpointPEss, !.P = setpointPEss]

ESS_SetSetpoint(s, setpointPEss) == [s EXCEPT !.SetPointP = setpointPEss]

ESS_IncreaseDischarge(s, discharge) ==
    LET p == ESS_GetMeasure(s)[1]
        maxDisch == ESS_GetMeasure(s)[3]
        e == ESS_GetMeasure(s)[4]
    IN  IF p + discharge > 0 /\ e <= 0
        THEN [ess |-> ESS_SetSetpoint(s, 0), ret |-> -p, err |-> "nil"]
        ELSE IF p + discharge < maxDisch
        THEN [ess |-> ESS_SetSetpoint(s, p + discharge), ret |-> 0, err |-> "nil"]
        ELSE [ess |-> ESS_SetSetpoint(s, maxDisch),
              ret |-> discharge - (maxDisch - p), err |-> "nil"]

ESS_DecreaseDischarge(s, discharge) ==
    LET p == ESS_GetMeasure(s)[1]
        maxCh == ESS_GetMeasure(s)[2]
        e == ESS_GetMeasure(s)[4]
    IN  IF p + discharge < 0 /\ e >= s.Capacity
        THEN [ess |-> ESS_SetSetpoint(s, 0), ret |-> -p, err |-> "nil"]
        ELSE IF p + discharge > maxCh
        THEN [ess |-> ESS_SetSetpoint(s, p + discharge), ret |-> 0, err |-> "nil"]
        ELSE [ess |-> ESS_SetSetpoint(s, maxCh),
              ret |-> discharge - (maxCh - p), err |-> "nil"]

ESS_AdjustDischarge(s, discharge) ==
    IF discharge < 0
    THEN ESS_DecreaseDischarge(s, discharge)
    ELSE ESS_IncreaseDischarge(s, discharge)

\* delta is PmaxCh/20 or pocMax/20; wrote says whether AdjustDischarge ran.
ESS_BalanceEnergy(s, pocArg, pocMax) ==
    IF /\ QuotLess(pocArg, pocMax, 3, 10)
       /\ QuotLess(s.E, s.Capacity, 7, 10)
       /\ s.P > s.PmaxCh
    THEN LET delta == Max((-s.PmaxCh) \div 20, (-pocMax) \div 20)
         IN  [ess |-> ESS_AdjustDischarge(s, delta).ess, ret |-> delta,
              err |-> "nil", wrote |-> TRUE]
    ELSE IF /\ QuotGreater(pocArg, pocMax, 7, 10)
            /\ QuotGreater(s.E, s.Capacity, 7, 10)
            /\ s.P < s.PmaxDisch
    THEN LET delta == Min(s.PmaxDisch \div 20, pocMax \div 20)
         IN  [ess |-> ESS_AdjustDischarge(s, delta).ess, ret |-> delta,
              err |-> "nil", wrote |-> TRUE]
    ELSE [ess |-> s, ret |-> 0, err |-> "nil", wrote |-> FALSE]

(***************************************************************************)
(* ESSv1, the earlier implementation (pv.go, lines 94-221).                *)
(***************************************************************************)
ESSv1_IncreaseDischarge(s, discharge) ==
    LET p == ESS_GetMeasure(s)[1]
        pMaxDisch == ESS_GetMeasure(s)[3]
        e == ESS_GetMeasure(s)[4]
    IN  IF p + discharge > 0 /\ e <= 0
        THEN [ess |-> ESS_SetSetpoint(s, 0), ret |-> -p, err |-> "nil"]
        ELSE IF p + discharge < pMaxDisch
        THEN [ess |-> ESS_SetSetpoint(s, p + discharge), ret |-> 0, err |-> "nil"]
        ELSE [ess |-> ESS_SetSetpoint(s, pMaxDisch),
              ret |-> discharge - (pMaxDisch - p), err |-> "nil"]

ESSv1_DecreaseDischarge(s, discharge) ==
    LET p == ESS_GetMeasure(s)[1]
        maxCH == ESS_GetMeasure(s)[2]
        e == ESS_GetMeasure(s)[4]
    IN  IF p + discharge < 0 /\ e >= s.Capacity
        THEN [ess |-> ESS_SetSetpoint(s, 0), ret |-> -p, err |-> "nil"]
        ELSE IF p + discharge > maxCH
        THEN [ess |-> ESS_SetSetpoint(s, p - discharge), ret |-> 0, err |-> "nil"]
        ELSE [ess |-> ESS_SetSetpoint(s, maxCH),
              ret |-> discharge - (maxCH - p), err |-> "nil"]

ESSv1_AdjustDischarge(s, discharge) ==
    IF discharge < 0
    THEN ESSv1_DecreaseDischarge(s, discharge)
    ELSE ESSv1_IncreaseDischarge(s, discharge)

\* ESSv1.BalanceEnergy(pocPercentage), lines 198-221.  The argument is given
\* in hundredths: pocPercentage = pocHundredths / 100.
ESSv1_BalanceEnergy(s, pocHundredths) ==
    IF /\ QuotLess(pocHundredths, 100, 1, 2)
       /\ QuotLess(s.E, s.Capacity, 1, 2)
       /\ s.P < s.PmaxCh
    THEN [ess |-> ESSv1_AdjustDischarge(s, (-s.PmaxCh) \div 10).ess,
          err |-> "nil", wrote |-> TRUE]
    ELSE IF /\ QuotGreater(pocHundredths, 100, 1, 2)
            /\ QuotGreater(s.E, s.Capacity, 1, 2)
    THEN [ess |-> ESSv1_AdjustDischarge(s, s.PmaxCh \div 10).ess,
          err |-> "nil", wrote |-> TRUE]
    ELSE [ess |-> s, err |-> "nil", wrote |-> FALSE]

(***************************************************************************)
(* PV.BalanceEnergy is called by Serve (part_000, line 120) but its source *)
(* is not among the files; it is modelled from section 4.3 of the          *)
(* specification: an overshoot (available < 0) is taken back at once,      *)
(* otherwise spare production below 80% utilisation nudges the output up   *)
(* by min(available, pocMax/20).                                           *)
(***************************************************************************)
PV_BalanceEnergy(v, pocArg, pocMax) ==
    LET available == PV_AvailableProd(v)
    IN  IF available < 0
        THEN [pv |-> PV_AdjustDischarge(v, available).pv, ret |-> available,
              err |-> "nil"]
        ELSE IF available > 0 /\ QuotLess(pocArg, pocMax, 8, 10)
        THEN LET delta == Min(available, pocMax \div 20)
             IN  [pv |-> PV_AdjustDischarge(v, delta).pv, ret |-> delta,
                  err |-> "nil"]
        ELSE [pv |-> v, ret |-> 0, err |-> "nil"]

(***************************************************************************)
(* EMS site operations (unnamed/part_000, lines 146-222).  pvCalled and    *)
(* essCalled say whose AdjustDischarge the operation called.               *)
(***************************************************************************)
EMS_BalanceSiteDischarge(v, s, pocArg) ==
    LET available == PV_AvailableProd(v)
        p == ESS_GetMeasure(s)[1]
        pMaxCh == ESS_GetMeasure(s)[2]
        maxChAvailable == p - pMaxCh
        Move(x) == [pv |-> PV_AdjustDischarge(v, x).pv,
                    ess |-> ESS_AdjustDischarge(s, -x).ess,
                    err |-> "nil", Required |-> 0,
                    pvCalled |-> TRUE, essCalled |-> TRUE]
    IN  IF available > 0 /\ p > 0
        THEN IF available > p THEN Move(p) ELSE Move(available)
        ELSE IF available > 0 /\ p < 0
        THEN IF available > maxChAvailable
             THEN Move(maxChAvailable)
             ELSE Move(available)
        ELSE [pv |-> v, ess |-> s, err |-> "nil", Required |-> 0,
              pvCalled |-> FALSE, essCalled |-> FALSE]

\* A variant without the early return: the ESS is asked for the remainder
\* even when it is 0.
EMS_IncreaseSiteDischarge_NoEarlyReturn(v, s, discharge) ==
    LET r1 == PV_AdjustDischarge(v, discharge)
        r2 == ESS_AdjustDischarge(s, r1.ret)
    IN  IF r2.err # "nil"
        THEN [pv |-> r1.pv, ess |-> r2.ess, err |-> r2.err, Required |-> 0,
              pvCalled |-> TRUE, essCalled |-> TRUE]
        ELSE IF r2.ret # 0
        THEN [pv |-> r1.pv, ess |-> r2.ess, err |-> "ErrGridMissingCoverage",
              Required |-> r2.ret, pvCalled |-> TRUE, essCalled |-> TRUE]
        ELSE [pv |-> r1.pv, ess |-> r2.ess, err |-> "nil", Required |-> 0,
              pvCalled |-> TRUE, essCalled |-> TRUE]

EMS_IncreaseSiteDischarge(v, s, discharge) ==
    LET r1 == PV_AdjustDischarge(v, discharge)
        r2 == ESS_AdjustDischarge(s, r1.ret)
    IN  IF r1.ret = 0
        THEN [pv |-> r1.pv, ess |-> s, err |-> "nil", Required |-> 0,
              pvCalled |-> TRUE, essCalled |-> FALSE]
        ELSE IF r2.err # "nil"
        THEN [pv |-> r1.pv, ess |-> r2.ess, err |-> r2.err, Required |-> 0,
              pvCalled |-> TRUE, essCalled |-> TRUE]
        ELSE IF r2.ret # 0
        THEN [pv |-> r1.pv, ess |-> r2.ess, err |-> "ErrGridMissingCoverage",
              Required |-> r2.ret, pvCalled |-> TRUE, essCalled |-> TRUE]
        ELSE [pv |-> r1.pv, ess |-> r2.ess, err |-> "nil", Required |-> 0,
              pvCalled |-> TRUE, essCalled |-> TRUE]

EMS_DecreaseSiteDischarge(v, s, discharge) ==
    LET r1 == ESS_AdjustDischarge(s, discharge)
        r2 == PV_AdjustDischarge(v, r1.ret)
    IN  IF r1.err # "nil"
        THEN [pv |-> v, ess |-> r1.ess, err |-> r1.err, Required |-> 0,
              pvCalled |-> FALSE, essCalled |-> TRUE]
        ELSE IF r1.ret = 0
        THEN [pv |-> v, ess |-> r1.ess, err |-> "nil", Required |-> 0,
              pvCalled |-> FALSE, essCalled |-> TRUE]
        ELSE IF r2.ret # 0
        THEN [pv |-> r2.pv, ess |-> r1.ess, err |-> "ErrGridMissingCoverage",
              Required |-> r2.ret, pvCalled |-> TRUE, essCalled |-> TRUE]
        ELSE [pv |-> r2.pv, ess |-> r1.ess, err |-> "nil", Required |-> 0,
              pvCalled |-> TRUE, essCalled |-> TRUE]

(***************************************************************************)
(* States of the assets.  A PV state has 0 <= P <= Pprod <= Peak, an ESS   *)
(* state PmaxCh <= 0 <= PmaxDisch and PmaxCh <= P <= PmaxDisch; E ranges   *)
(* from below 0 to above Capacity.  SetPointP starts at Go's zero value,   *)
(* as in run(), which never sets it.                                       *)
(***************************************************************************)
\* The assets of the specification's increase scenario (section 8); the
\* fields the scenario leaves open are those of the configurations below.
ScenarioPV == [P |-> 0, Pprod |-> 30, Peak |-> 50, SetPointP |-> 0]
ScenarioESS == [P |-> 0, PmaxCh |-> -40, PmaxDisch |-> 40, E |-> 100,
                Capacity |-> 200, SetPointP |-> 0]

PVStates ==
    {[P |-> p, Pprod |-> pprod, Peak |-> 20 * MaxK, SetPointP |-> 0] :
        <<p, pprod>> \in {x \in Grid(0, MaxK) \X Grid(0, MaxK) : x[1] <= x[2]}}
    \cup {ScenarioPV}

ESSStates ==
    {[P |-> x[1], PmaxCh |-> x[2], PmaxDisch |-> x[3], E |-> x[4],
      Capacity |-> 20 * MaxE, SetPointP |-> 0] :
        x \in {y \in Grid(-MaxK, MaxK) \X Grid(-MaxK, 0) \X Grid(0, MaxK)
                      \X Grid(-1, MaxE + 1) : y[2] <= y[1] /\ y[1] <= y[3]}}
    \cup {ScenarioESS}

\* Requested amounts: the grid, and the 50 kW of the scenario.
Amounts == Grid(-MaxD, MaxD) \cup {50}

NoCall == [op |-> "none", a1 |-> 0, a2 |-> 0, ret |-> 0, err |-> "nil",
           Required |-> 0, pvCalled |-> FALSE, essCalled |-> FALSE, nth |-> 0]

(***************************************************************************)
(* Direct calls of the operations on an arbitrary state of the assets.     *)
(* A call is made on the state as constructed, or repeats the call made    *)
(* just before with the same arguments (nth = 2); no call changes P, E or  *)
(* the limits, so a repeated call sees the measures of the first.          *)
(***************************************************************************)
CanCall(op, a1, a2) ==
    /\ pc = "direct"
    /\ \/ last.op = "none"
       \/ last.op = op /\ last.a1 = a1 /\ last.a2 = a2 /\ last.nth = 1

Nth == IF last.op = "none" THEN 1 ELSE 2

ServeVarsUnchanged ==
    UNCHANGED <<POC, emsPMaxSite, PMaxSite, pMinSite, poc, reading, calls, pc,
                ctxKind, ctxDone, proc, ticks>>

CallPVAdjustDischarge ==
    \E d \in Amounts :
        /\ CanCall("PV.AdjustDischarge", d, 0)
        /\ LET r == PV_AdjustDischarge(pv, d)
           IN  /\ pv' = r.pv
               /\ last' = [op |-> "PV.AdjustDischarge", a1 |-> d, a2 |-> 0,
                           ret |-> r.ret, err |-> "nil", Required |-> 0,
                           pvCalled |-> TRUE, essCalled |-> FALSE, nth |-> Nth]
        /\ UNCHANGED ess
        /\ ServeVarsUnchanged

CallESSAdjustDischarge ==
    \E d \in Grid(-MaxD, MaxD) :
        /\ CanCall("ESS.AdjustDischarge", d, 0)
        /\ LET r == ESS_AdjustDischarge(ess, d)
           IN  /\ ess' = r.ess
               /\ last' = [op |-> "ESS.AdjustDischarge", a1 |-> d, a2 |-> 0,
                           ret |-> r.ret, err |-> r.err, Required |-> 0,
                           pvCalled |-> FALSE, essCalled |-> TRUE, nth |-> Nth]
        /\ UNCHANGED pv
        /\ ServeVarsUnchanged

CallESSv1AdjustDischarge ==
    \E d \in Grid(-MaxD, MaxD) :
        /\ CanCall("ESSv1.AdjustDischarge", d, 0)
        /\ LET r == ESSv1_AdjustDischarge(ess, d)
           IN  /\ ess' = r.ess
               /\ last' = [op |-> "ESSv1.AdjustDischarge", a1 |-> d, a2 |-> 0,
                           ret |-> r.ret, err |-> r.err, Required |-> 0,
                           pvCalled |-> FALSE, essCalled |-> TRUE, nth |-> Nth]
        /\ UNCHANGED pv
        /\ ServeVarsUnchanged

CallESSv1BalanceEnergy ==
    \E h \in Grid(0, MaxPoc + 4) :
        /\ CanCall("ESSv1.BalanceEnergy", h, 0)
        /\ LET r == ESSv1_BalanceEnergy(ess, h)
           IN  /\ ess' = r.ess
               /\ last' = [op |-> "ESSv1.BalanceEnergy", a1 |-> h, a2 |-> 0,
                           ret |-> 0, err |-> r.err, Required |-> 0,
                           pvCalled |-> FALSE, essCalled |-> r.wrote, nth |-> Nth]
        /\ UNCHANGED pv
        /\ ServeVarsUnchanged

CallESSBalanceEnergy ==
    \E a \in Grid(-MaxPoc, MaxPoc), m \in Grid(-MaxPoc, MaxPoc) :
        /\ CanCall("ESS.BalanceEnergy", a, m)
        /\ LET r == ESS_BalanceEnergy(ess, a, m)
           IN  /\ ess' = r.ess
               /\ last' = [op |-> "ESS.BalanceEnergy", a1 |-> a, a2 |-> m,
                           ret |-> r.ret, err |-> r.err, Required |-> 0,
                           pvCalled |-> FALSE, essCalled |-> r.wrote, nth |-> Nth]
        /\ UNCHANGED pv
        /\ ServeVarsUnchanged

CallSiteOp(op, a1, r) ==
    /\ CanCall(op, a1, 0)
    /\ pv' = r.pv
    /\ ess' = r.ess
    /\ last' = [op |-> op, a1 |-> a1, a2 |-> 0, ret |-> 0, err |-> r.err,
                Required |-> r.Required, pvCalled |-> r.pvCalled,
                essCalled |-> r.essCalled, nth |-> Nth]
    /\ ServeVarsUnchanged

CallIncreaseSiteDischarge ==
    \E d \in {a \in Amounts : a > 0} :
        CallSiteOp("IncreaseSiteDischarge", d, EMS_IncreaseSiteDischarge(pv, ess, d))

CallDecreaseSiteDischarge ==
    \E d \in {a \in Amounts : a < 0} :
        CallSiteOp("DecreaseSiteDischarge", d, EMS_DecreaseSiteDischarge(pv, ess, d))

CallBalanceSiteDischarge ==
    CallSiteOp("BalanceSiteDischarge", POC, EMS_BalanceSiteDischarge(pv, ess, POC))

Init ==
    /\ pv \in PVStates
    /\ ess \in ESSStates
    /\ POC = 0
    /\ emsPMaxSite = 0
    /\ PMaxSite = 0
    /\ pMinSite = 0
    /\ poc = 0
    /\ reading = 0
    /\ calls = <<>>
    /\ pc = "direct"
    /\ ctxKind = "Background"
    /\ ctxDone = FALSE
    /\ proc = "running"
    /\ ticks = 0
    /\ last = NoCall

Next ==
    \/ CallPVAdjustDischarge
    \/ CallESSAdjustDischarge
    \/ CallESSv1AdjustDischarge
    \/ CallESSv1BalanceEnergy
    \/ CallESSBalanceEnergy
    \/ CallIncreaseSiteDischarge
    \/ CallDecreaseSiteDischarge
    \/ CallBalanceSiteDischarge

Spec == Init /\ [][Next]_vars

(***************************************************************************)
(* The decision loop (unnamed/part_000, lines 31-144) and the program      *)
(* around it (main.go, lines 19-73).                                       *)
(***************************************************************************)
MarginNum == 1      \* margin := 0.1, as the fraction MarginNum / MarginDen
MarginDen == 10

\* rand.Int63n(10): values of 0..9, spread from 0 to 9 (all ten of them
\* with DrawSteps = 9).
Int63n10 == {(9 * i) \div DrawSteps : i \in 0..DrawSteps}

\* EMS.Next: the debug simulation of the next physical step.
EMS_Next(v, s, pMaxSite, r1, r2) ==
    LET pprod == v.Pprod + ((r1 - 5) * v.Peak) \div 100
        s1 == [s EXCEPT !.E = s.E - s.P, !.P = s.SetPointP]
        v1 == [v EXCEPT !.P = v.SetPointP,
                        !.Pprod = IF pprod < 0 THEN 0
                                  ELSE IF pprod > v.Peak THEN v.Peak
                                  ELSE pprod]
    IN  [pv |-> v1, ess |-> s1,
         POC |-> (-v1.P) - s1.P + ((r2 + 10) * pMaxSite) \div 100]

\* The EMS values run() builds from the configuration file.
ServeConfigs ==
    { [pv |-> [P |-> 0, Pprod |-> 789, Peak |-> 1000, SetPointP |-> 0],
       ess |-> [P |-> 0, PmaxCh |-> -40, PmaxDisch |-> 40, E |-> 100,
                Capacity |-> 200, SetPointP |-> 0],
       POC |-> 0, PMaxSite |-> -1000],
      [pv |-> [P |-> 0, Pprod |-> 100, Peak |-> 1000, SetPointP |-> 0],
       ess |-> [P |-> 0, PmaxCh |-> -40, PmaxDisch |-> 40, E |-> 100,
                Capacity |-> 200, SetPointP |-> 0],
       POC |-> 0, PMaxSite |-> 1000],
      [pv |-> [P |-> 0, Pprod |-> 0, Peak |-> 1000, SetPointP |-> 0],
       ess |-> [P |-> 0, PmaxCh |-> -40, PmaxDisch |-> 40, E |-> 0,
                Capacity |-> 200, SetPointP |-> 0],
       POC |-> 0, PMaxSite |-> 1000] }

InitServe ==
    /\ \E c \in ServeConfigs :
          /\ pv = c.pv
          /\ ess = c.ess
          /\ POC = c.POC
          /\ emsPMaxSite = c.PMaxSite
          /\ PMaxSite = c.PMaxSite
    /\ pMinSite = 0
    /\ poc = 0
    /\ reading = 0
    /\ calls = <<>>
    /\ pc = "start"
    /\ ctxKind \in {"Background", "WithCancel"}
    /\ ctxDone = FALSE
    /\ proc = "running"
    /\ ticks = 0
    /\ last = NoCall

Running == proc = "running"

\* Serve, lines 53-59: the margins.
ServeStart ==
    /\ Running
    /\ pc = "start"
    /\ PMaxSite' = PMaxSite - (PMaxSite * MarginNum) \div MarginDen
    /\ pMinSite' = 0 + (PMaxSite' * MarginNum) \div MarginDen
    /\ pc' = "ticker"
    /\ UNCHANGED <<pv, ess, POC, emsPMaxSite, poc, reading, calls, ctxKind,
                   ctxDone, proc, ticks, last>>

\* Serve, lines 62-70: a tick that finds the context done.
ServeReturn ==
    /\ Running
    /\ pc = "ticker"
    /\ ctxDone
    /\ pc' = "returned"
    /\ UNCHANGED <<pv, ess, POC, emsPMaxSite, PMaxSite, pMinSite, poc,
                   reading, calls, ctxKind, ctxDone, proc, ticks, last>>

\* Serve, lines 62-107: a tick up to the choice of its branch.
ServeTick ==
    /\ Running
    /\ pc = "ticker"
    /\ ~ctxDone
    /\ ticks < MaxTicks
    /\ \E r1 \in Int63n10, r2 \in Int63n10 :
          LET n == EMS_Next(pv, ess, PMaxSite, r1, r2)
          IN  /\ pv' = n.pv
              /\ ess' = n.ess
              /\ POC' = n.POC
              /\ poc' = n.POC
              /\ reading' = n.POC
              /\ pc' = IF n.POC > PMaxSite THEN "increase"
                       ELSE IF n.POC < pMinSite THEN "decrease"
                       ELSE "balance"
    /\ calls' = <<>>
    /\ ticks' = ticks + 1
    /\ UNCHANGED <<emsPMaxSite, PMaxSite, pMinSite, ctxKind, ctxDone, proc, last>>

ServeSiteOp(op, arg, r, nextpc) ==
    /\ pv' = r.pv
    /\ ess' = r.ess
    /\ calls' = Append(calls, [op |-> op, arg |-> arg, ret |-> 0, err |-> r.err,
                               Required |-> r.Required])
    /\ pc' = IF r.err # "nil" THEN "ticker" ELSE nextpc
    /\ UNCHANGED <<POC, emsPMaxSite, PMaxSite, pMinSite, poc, reading,
                   ctxKind, ctxDone, proc, ticks, last>>

\* A variant that returns the error of IncreaseSiteDischarge to the caller.
ServeIncrease_ReturnsError ==
    /\ Running
    /\ pc = "increase"
    /\ LET r == EMS_IncreaseSiteDischarge(pv, ess, poc - PMaxSite)
       IN  /\ pv' = r.pv
           /\ ess' = r.ess
           /\ calls' = Append(calls, [op |-> "IncreaseSiteDischarge",
                                      arg |-> poc - PMaxSite, ret |-> 0,
                                      err |-> r.err, Required |-> r.Required])
           /\ pc' = IF r.err # "nil" THEN "returned" ELSE "ticker"
    /\ UNCHANGED <<POC, emsPMaxSite, PMaxSite, pMinSite, poc, reading,
                   ctxKind, ctxDone, proc, ticks, last>>

\* A variant in which the over-threshold branch lacks its continue and falls
\* through to the normal-band sequence.
ServeIncrease_FallsThrough ==
    /\ Running
    /\ pc = "increase"
    /\ ServeSiteOp("IncreaseSiteDischarge", poc - PMaxSite,
                   EMS_IncreaseSiteDischarge(pv, ess, poc - PMaxSite), "balance")

\* Serve, lines 85-94.
ServeIncrease ==
    /\ Running
    /\ pc = "increase"
    /\ ServeSiteOp("IncreaseSiteDischarge", poc - PMaxSite,
                   EMS_IncreaseSiteDischarge(pv, ess, poc - PMaxSite), "ticker")

\* Serve, lines 98-107.
ServeDecrease ==
    /\ Running
    /\ pc = "decrease"
    /\ ServeSiteOp("DecreaseSiteDischarge", poc - pMinSite,
                   EMS_DecreaseSiteDischarge(pv, ess, poc - pMinSite), "ticker")

\* Serve, lines 111-116.
ServeBalance ==
    /\ Running
    /\ pc = "balance"
    /\ ServeSiteOp("BalanceSiteDischarge", poc,
                   EMS_BalanceSiteDischarge(pv, ess, poc), "pvbalance")

\* Serve, lines 120-127.
ServePVBalanceEnergy ==
    /\ Running
    /\ pc = "pvbalance"
    /\ LET r == PV_BalanceEnergy(pv, poc, PMaxSite)
       IN  /\ pv' = r.pv
           /\ poc' = IF r.err # "nil" THEN poc ELSE poc + r.ret
           /\ calls' = Append(calls, [op |-> "PV.BalanceEnergy", arg |-> poc,
                                      ret |-> r.ret, err |-> r.err, Required |-> 0])
           /\ pc' = IF r.err # "nil" THEN "ticker" ELSE "essbalance"
    /\ UNCHANGED <<ess, POC, emsPMaxSite, PMaxSite, pMinSite, reading,
                   ctxKind, ctxDone, proc, ticks, last>>

\* Serve, lines 131-140.
ServeESSBalanceEnergy ==
    /\ Running
    /\ pc = "essbalance"
    /\ LET r == ESS_BalanceEnergy(ess, poc, PMaxSite)
       IN  /\ ess' = r.ess
           /\ poc' = IF r.err # "nil" THEN poc ELSE poc + r.ret
           /\ calls' = Append(calls, [op |-> "ESS.BalanceEnergy", arg |-> poc,
                                      ret |-> r.ret, err |-> r.err, Required |-> 0])
           /\ pc' = "ticker"
    /\ UNCHANGED <<pv, POC, emsPMaxSite, PMaxSite, pMinSite, reading,
                   ctxKind, ctxDone, proc, ticks, last>>

ServeStep ==
    \/ ServeStart
    \/ ServeReturn
    \/ ServeTick
    \/ ServeIncrease
    \/ ServeDecrease
    \/ ServeBalance
    \/ ServePVBalanceEnergy
    \/ ServeESSBalanceEnergy

\* The caller of Serve cancels the context it passed.  run() passes
\* context.Background(), which is never done.
Cancel ==
    /\ Running
    /\ ctxKind = "WithCancel"
    /\ ~ctxDone
    /\ ctxDone' = TRUE
    /\ UNCHANGED <<pv, ess, POC, emsPMaxSite, PMaxSite, pMinSite, poc,
                   reading, calls, pc, ctxKind, proc, ticks, last>>

\* run(), lines 57-72: SIGHUP, SIGINT or SIGTERM makes run() return, main
\* returns and the process ends, whatever the Serve goroutine is doing.
Signal ==
    /\ Running
    /\ ctxKind = "Background"
    /\ proc' = "exited"
    /\ UNCHANGED <<pv, ess, POC, emsPMaxSite, PMaxSite, pMinSite, poc,
                   reading, calls, pc, ctxKind, ctxDone, ticks, last>>

NextServe ==
    \/ ServeStep
    \/ Cancel
    \/ Signal

SpecServe == InitServe /\ [][NextServe]_vars

\* The ticker fires every delay and the goroutine is scheduled.
SpecServeFair == SpecServe /\ WF_vars(ServeStep)

\* EMS.GetPLoad, lines 47-50: the load deduced from the meter and the assets.
EMS_GetPLoad(v, s, pocP) == pocP - v.P - s.P

(***************************************************************************)
(* What a call changed: the commanded change SetPointP - P of an asset     *)
(* whose AdjustDischarge the call invoked, 0 for an asset it left alone.   *)
(***************************************************************************)
DeltaPV == IF last.pvCalled THEN pv.SetPointP - pv.P ELSE 0
DeltaESS == IF last.essCalled THEN ess.SetPointP - ess.P ELSE 0

(* C1: after IncreaseSiteDischarge(amount), amount > 0, the commanded      *)
(* changes of PV and ESS add up to amount minus the uncovered remainder    *)
(* (0 on nil, ErrGridMissingCoverage.Required on error), for every ESS     *)
(* state including E <= 0.                                                 *)
C1_IncreaseConservation ==
    last.op = "IncreaseSiteDischarge" =>
        DeltaPV + DeltaESS = last.a1 - last.Required

(* C2: whenever BalanceSiteDischarge issues setpoints, PV.SetPointP +      *)
(* ESS.SetPointP after the call equals PV.P + ESS.P before it, for any E.  *)
C2_BalanceKeepsSum ==
    (last.op = "BalanceSiteDischarge" /\ last.pvCalled) =>
        pv.SetPointP + ess.SetPointP = pv.P + ess.P

(* C4: after AdjustDischarge(delta) of either ESS implementation, on a     *)
(* state within its limits, SetPointP lies in [PmaxCh, PmaxDisch].         *)
C4_ESSRangeSafety ==
    last.op \in {"ESS.AdjustDischarge", "ESSv1.AdjustDischarge"} =>
        ess.PmaxCh <= ess.SetPointP /\ ess.SetPointP <= ess.PmaxDisch

(* C5: after PV.AdjustDischarge(delta) on a state with 0 <= P <= Pprod <=  *)
(* Peak, for every delta, SetPointP lies in [0, Pprod].                    *)
C5_PVRangeSafety ==
    last.op = "PV.AdjustDischarge" =>
        0 <= pv.SetPointP /\ pv.SetPointP <= pv.Pprod

C5_Witness ==
    /\ last.op = "PV.AdjustDischarge"
    /\ last.a1 < 0
    /\ pv.P > 0
    /\ pv.P + last.a1 < 0
    /\ pv.SetPointP = 0

(* C6: with E = 0 and delta > 0, ESS.AdjustDischarge(delta) sets           *)
(* SetPointP to 0 and returns a non-zero uncovered value; hence            *)
(* IncreaseSiteDischarge never returns nil for a remainder handed to an    *)
(* empty ESS.                                                              *)
C6_BatteryExhaustion ==
    /\ (last.op = "ESS.AdjustDischarge" /\ ess.E = 0 /\ last.a1 > 0) =>
           ess.SetPointP = 0 /\ last.ret # 0
    /\ (last.op = "IncreaseSiteDischarge" /\ last.essCalled /\ ess.E = 0) =>
           last.err # "nil"

(* C9: ESS.BalanceEnergy(poc, pocMax) called twice in a row with the same  *)
(* arguments and no change of the measures in between returns the same     *)
(* delta and leaves the same SetPointP as the first call.                  *)
C9_BalanceEnergyIdempotent ==
    [][(last'.op = "ESS.BalanceEnergy" /\ last'.nth = 2) =>
          (last'.ret = last.ret /\ ess'.SetPointP = ess.SetPointP)]_vars

C9_Witness ==
    /\ last.op = "ESS.BalanceEnergy"
    /\ last.nth = 2
    /\ last.essCalled
    /\ last.ret # 0
    /\ ess.SetPointP = ess.P + last.ret

(* C10: after DecreaseSiteDischarge(amount), amount < 0, the commanded     *)
(* changes of ESS and PV add up to amount minus the uncovered remainder,   *)
(* and neither setpoint moves in the increasing-discharge direction, for   *)
(* every ESS state including a full battery.                               *)
C10_DecreaseConservation ==
    last.op = "DecreaseSiteDischarge" =>
        /\ DeltaESS + DeltaPV = last.a1 - last.Required
        /\ DeltaESS <= 0
        /\ DeltaPV <= 0

(* C3: with PMaxSite = -1000 configured, Serve computes the bound -900 and *)
(* pMinSite = -90, and a tick that reads POC = -950 calls                  *)
(* IncreaseSiteDischarge(50) and nothing else.                             *)
C3_OverThresholdScenario ==
    /\ (emsPMaxSite = -1000 /\ pc # "start") =>
           PMaxSite = -900 /\ pMinSite = -90
    /\ (emsPMaxSite = -1000 /\ reading = -950 /\ pc = "ticker") =>
           /\ Len(calls) = 1
           /\ calls[1].op = "IncreaseSiteDischarge"
           /\ calls[1].arg = 50

(* C7: an error of a site operation or of an energy-balancing routine      *)
(* never makes Serve return, the loop goes on to wait for the next tick;   *)
(* Serve returns only from a tick that finds the context done; and once    *)
(* the context is cancelled, Serve eventually returns.                     *)
C7_ErrorContainment ==
    /\ [][(pc' = "returned" /\ pc # "returned") => (pc = "ticker" /\ ctxDone)]_vars
    /\ [][(calls' # calls /\ calls' # <<>> /\ calls'[Len(calls')].err # "nil")
             => pc' = "ticker"]_vars
    /\ (ctxDone ~> pc = "returned")

C7_Witness ==
    /\ pc = "returned"
    /\ ctxDone
    /\ calls # <<>>
    /\ calls[Len(calls)].err = "ErrGridMissingCoverage"

(* C8: when a signal ends the program, the tick in progress has been       *)
(* completed: the process never exits with a tick partly executed.         *)
C8_GracefulShutdown ==
    proc = "exited" => pc \in {"start", "ticker", "returned"}

(* C11: for delta < 0, PV.AdjustDischarge(delta) sets SetPointP = P + delta *)
(* and returns 0 when P + delta >= 0, and otherwise sets SetPointP = 0 and  *)
(* returns the unmet remainder delta + P.                                   *)
C11_PVDecreaseRemainder ==
    (last.op = "PV.AdjustDischarge" /\ last.a1 < 0) =>
        IF pv.P + last.a1 >= 0
        THEN pv.SetPointP = pv.P + last.a1 /\ last.ret = 0
        ELSE pv.SetPointP = 0 /\ last.ret = last.a1 + pv.P

(* C12: for amount > 0, PV.AdjustDischarge(amount) sets SetPointP =          *)
(* min(P + amount, Pprod) and returns max(0, amount - (Pprod - P)); an ESS   *)
(* with E > 0 given r > 0 sets SetPointP = min(P + r, PmaxDisch) and returns *)
(* max(0, r - (PmaxDisch - P)); so with PV (P=0, Pprod=30) and ESS (P=0,     *)
(* PmaxDisch=40, E=100), IncreaseSiteDischarge(50) leaves PV.SetPointP = 30, *)
(* ESS.SetPointP = 20 and returns no error.                                  *)
C12_Scenario ==
    /\ last.op = "IncreaseSiteDischarge"
    /\ last.a1 = 50
    /\ pv.P = 0 /\ pv.Pprod = 30
    /\ ess.P = 0 /\ ess.PmaxDisch = 40 /\ ess.E = 100

C12_IncreasePath ==
    /\ (last.op = "PV.AdjustDischarge" /\ last.a1 > 0) =>
           /\ pv.SetPointP = Min(pv.P + last.a1, pv.Pprod)
           /\ last.ret = Max(0, last.a1 - (pv.Pprod - pv.P))
    /\ (last.op = "ESS.AdjustDischarge" /\ last.a1 > 0 /\ ess.E > 0) =>
           /\ ess.SetPointP = Min(ess.P + last.a1, ess.PmaxDisch)
           /\ last.ret = Max(0, last.a1 - (ess.PmaxDisch - ess.P))
    /\ C12_Scenario =>
           pv.SetPointP = 30 /\ ess.SetPointP = 20 /\ last.err = "nil"

C12_Witness ==
    /\ C12_Scenario
    /\ pv.SetPointP = 30
    /\ ess.SetPointP = 20
    /\ last.pvCalled /\ last.essCalled

\* The branch ESS.BalanceEnergy took in the last call, read from the state the
\* call left: the call changes SetPointP only, and the branch conditions read
\* P, PmaxCh, PmaxDisch, E and Capacity.
Abs(x) == IF x < 0 THEN -x ELSE x

BalanceEnergyCalled == last.op = "ESS.BalanceEnergy"

ChargingBranch ==
    /\ BalanceEnergyCalled
    /\ QuotLess(last.a1, last.a2, 3, 10)
    /\ QuotLess(ess.E, ess.Capacity, 7, 10)
    /\ ess.P > ess.PmaxCh

DischargingBranch ==
    /\ BalanceEnergyCalled
    /\ ~ChargingBranch
    /\ QuotGreater(last.a1, last.a2, 7, 10)
    /\ QuotGreater(ess.E, ess.Capacity, 7, 10)
    /\ ess.P < ess.PmaxDisch

ESSWithinLimits == ess.PmaxCh <= ess.P /\ ess.P <= ess.PmaxDisch

(* C16: for an ESS with PmaxCh < P <= PmaxDisch, 0 < E, E/Capacity < 0.7    *)
(* and poc/pocMax < 0.3, ESS.BalanceEnergy(poc, pocMax) moves the setpoint  *)
(* toward charging: SetPointP <= P after the call and the returned delta    *)
(* is <= 0.                                                                 *)
C16_ChargingNudgeDirection ==
    (ChargingBranch /\ ess.P <= ess.PmaxDisch /\ ess.E > 0) =>
        ess.SetPointP <= ess.P /\ last.ret <= 0

(* C17: the delta requested by ESS.BalanceEnergy in one cycle is at most    *)
(* |pocMax|/20 in magnitude and at most the battery ramp step (|PmaxCh|/20  *)
(* in the charging branch, PmaxDisch/20 in the discharging branch).         *)
C17_StepCap ==
    (BalanceEnergyCalled /\ ESSWithinLimits) =>
        /\ 20 * Abs(last.ret) <= Abs(last.a2)
        /\ ChargingBranch => 20 * Abs(last.ret) <= Abs(ess.PmaxCh)
        /\ DischargingBranch => 20 * Abs(last.ret) <= ess.PmaxDisch

(* C20: the value ESS.BalanceEnergy returns is the delta it applied: it     *)
(* equals SetPointP - P after a call that wrote the setpoint, and it is 0   *)
(* exactly when the setpoint was not written.                               *)
C20_ReturnedDeltaIsApplied ==
    (BalanceEnergyCalled /\ ESSWithinLimits) =>
        /\ last.essCalled => last.ret = ess.SetPointP - ess.P
        /\ (last.ret = 0) <=> ~last.essCalled

(* C18: IncreaseSiteDischarge leaves the ESS unchanged whenever the PV's    *)
(* remainder is 0, DecreaseSiteDischarge leaves the PV unchanged whenever   *)
(* the ESS's remainder is 0, and the lower-priority asset is written only   *)
(* when the higher-priority asset returned a non-zero remainder.            *)
C18_WaterfallFrame ==
    [][/\ (last'.op = "IncreaseSiteDischarge" /\ last' # last) =>
              LET remainder == PV_AdjustDischarge(pv, last'.a1).ret
              IN  /\ remainder = 0 => ess' = ess
                  /\ last'.essCalled <=> remainder # 0
                  /\ ess' # ess => remainder # 0
       /\ (last'.op = "DecreaseSiteDischarge" /\ last' # last) =>
              LET remainder == ESS_AdjustDischarge(ess, last'.a1).ret
              IN  /\ remainder = 0 => pv' = pv
                  /\ last'.pvCalled <=> remainder # 0
                  /\ pv' # pv => remainder # 0]_vars

C18_Witness ==
    /\ last.op = "IncreaseSiteDischarge"
    /\ last.pvCalled /\ ~last.essCalled
    /\ pv.SetPointP = pv.P + last.a1
    /\ ess.P # 0 /\ ess.SetPointP = 0

(* C19: PV.AdjustDischarge, ESS.AdjustDischarge and ESS.BalanceEnergy       *)
(* change only SetPointP of the asset they are called on; every other field *)
(* of both assets and the meter's POC are left as they were.  Repeating the *)
(* same AdjustDischarge call with P unchanged yields the same SetPointP and *)
(* the same returned remainder.                                             *)
PrimitiveOps == {"PV.AdjustDischarge", "ESS.AdjustDischarge", "ESS.BalanceEnergy"}

SameButSetpoint(a, b) == [a EXCEPT !.SetPointP = 0] = [b EXCEPT !.SetPointP = 0]

C19_PrimitivesWriteOnlySetpoint ==
    [][(last'.op \in PrimitiveOps /\ last' # last) =>
           /\ SameButSetpoint(pv', pv)
           /\ SameButSetpoint(ess', ess)
           /\ POC' = POC
           /\ last'.op = "PV.AdjustDischarge" => ess' = ess
           /\ last'.op # "PV.AdjustDischarge" => pv' = pv
           /\ last'.nth = 2 =>
                  /\ last'.ret = last.ret
                  /\ pv'.SetPointP = pv.SetPointP
                  /\ ess'.SetPointP = ess.SetPointP]_vars

C19_Witness ==
    /\ last.op = "ESS.AdjustDischarge"
    /\ last.nth = 2
    /\ last.ret # 0
    /\ ess.SetPointP # ess.P
    /\ ess.SetPointP # 0

(* C15: in every tick of Serve exactly one of the three paths runs:         *)
(* IncreaseSiteDischarge alone, DecreaseSiteDischarge alone, or             *)
(* BalanceSiteDischarge, PV energy balance, ESS energy balance in that      *)
(* order; no call is repeated within a tick; IncreaseSiteDischarge is only  *)
(* called with an amount > 0 and DecreaseSiteDischarge with an amount < 0.  *)
OpsOf(cs) == [i \in 1..Len(cs) |-> cs[i].op]

NormalBandPath == <<"BalanceSiteDischarge", "PV.BalanceEnergy", "ESS.BalanceEnergy">>

TickPaths == {<<"IncreaseSiteDischarge">>, <<"DecreaseSiteDischarge">>, NormalBandPath}

TickOver == pc \in {"ticker", "returned"} /\ ticks > 0

C15_RegimeExclusivity ==
    /\ \E path \in TickPaths :
           /\ Len(calls) <= Len(path)
           /\ OpsOf(calls) = SubSeq(path, 1, Len(calls))
    /\ TickOver => OpsOf(calls) \in TickPaths
    /\ \A i \in 1..Len(calls) :
           /\ calls[i].op = "IncreaseSiteDischarge" => calls[i].arg > 0
           /\ calls[i].op = "DecreaseSiteDischarge" => calls[i].arg < 0

C15_Witness ==
    /\ TickOver
    /\ ticks = MaxTicks
    /\ OpsOf(calls) = NormalBandPath

(* C13: taking the documented balance POC = PV.P + ESS.P + Pload with      *)
(* PMaxSite < 0: when a tick reads a POC outside the band                   *)
(* [PMaxSite, pMinSite] and its corrective call returns no error, then the  *)
(* POC that results once the setpoints are applied (P := SetPointP) with    *)
(* Pload unchanged lies within the band and is no further from it than the  *)
(* reading.                                                                 *)
InBand(x) == PMaxSite <= x /\ x <= pMinSite

DistToBand(x) ==
    IF x < PMaxSite THEN PMaxSite - x
    ELSE IF x > pMinSite THEN x - pMinSite
    ELSE 0

CorrectedWithoutError ==
    /\ TickOver
    /\ Len(calls) = 1
    /\ calls[1].op \in {"IncreaseSiteDischarge", "DecreaseSiteDischarge"}
    /\ calls[1].err = "nil"

\* Ppoc = Pess + Ppv + Pload with the commanded setpoints as outputs and the
\* load deduced from the reading of this tick.
DocumentedNextPOC == pv.SetPointP + ess.SetPointP + EMS_GetPLoad(pv, ess, reading)

C13_CorrectionRestoresCompliance ==
    (emsPMaxSite < 0 /\ CorrectedWithoutError /\ ~InBand(reading)) =>
        /\ InBand(DocumentedNextPOC)
        /\ DistToBand(DocumentedNextPOC) <= DistToBand(reading)

(* C14: with PMaxSite < 0, a tick whose reading is compliant with margin,   *)
(* PMaxSite_effective <= POC <= pMinSite, calls neither                     *)
(* IncreaseSiteDischarge nor DecreaseSiteDischarge and runs                 *)
(* BalanceSiteDischarge followed by the two energy-balancing routines.      *)
C14_CompliantTakesNormalBand ==
    (emsPMaxSite < 0 /\ TickOver /\ InBand(reading)) =>
        OpsOf(calls) = NormalBandPath

(* C22: an empty battery is never commanded to discharge and a full one is  *)
(* never commanded to charge: after any call that reaches                   *)
(* ESS.AdjustDischarge (directly, or through IncreaseSiteDischarge,         *)
(* DecreaseSiteDischarge, BalanceSiteDischarge or ESS.BalanceEnergy) on an  *)
(* ESS within its limits, E <= 0 implies SetPointP <= 0 and E >= Capacity   *)
(* implies SetPointP >= 0.                                                  *)
ESSCommandedBy ==
    {"ESS.AdjustDischarge", "IncreaseSiteDischarge", "DecreaseSiteDischarge",
     "BalanceSiteDischarge", "ESS.BalanceEnergy"}

C22_ExhaustedNeverCommanded ==
    (last.op \in ESSCommandedBy /\ last.essCalled /\ ESSWithinLimits) =>
        /\ ess.E <= 0 => ess.SetPointP <= 0
        /\ ess.E >= ess.Capacity => ess.SetPointP >= 0

(* C21: in a normal-band tick whose PV energy balance changes nothing, the  *)
(* ESS setpoint at the end of the tick is the value BalanceSiteDischarge    *)
(* wrote (ESS.P if it wrote none) plus the delta ESS.BalanceEnergy          *)
(* returned, and the commanded change of both assets,                       *)
(* (PV.SetPointP + ESS.SetPointP) - (PV.P + ESS.P), equals the total delta  *)
(* folded into the POC estimate during the tick.                            *)
C21_NormalBandComposes ==
    [][(/\ pc = "essbalance"
        /\ pc' = "ticker"
        /\ Len(calls) = 2
        /\ calls[2].ret = 0) =>
           LET redistributed == EMS_BalanceSiteDischarge(pv, ess, reading).essCalled
               committed == IF redistributed THEN ess.SetPointP ELSE ess.P
           IN  /\ ess'.SetPointP = committed + calls'[3].ret
               /\ (pv'.SetPointP + ess'.SetPointP) - (pv'.P + ess'.P)
                      = poc' - reading]_vars

====
